---- MODULE Spec2Model ----
(***************************************************************************)
(* Uncertainty quantification pipeline of the repository:                  *)
(*   src/uncertainpy/parameters.py   Parameter, Parameters                 *)
(*   src/uncertainty.py              UncertaintyEstimation                 *)
(*   src/src/evaluateNodeFunction.py evaluateNodeFunction                  *)
(* and the protocol between the MPI child process and its parent that      *)
(*   src/hnn_core/tests/test_mpi_child.py                                  *)
(* exercises (MPISimulation, MPIBackend._process_child_data).              *)
(* The sources are Python 2 (print statements), so a dict iterates in      *)
(* hash-table order, not in insertion order.                               *)
(***************************************************************************)
EXTENDS Integers, Sequences, FiniteSets, TLC

(* ------------------------------ bounds --------------------------------- *)
\* self.mc_samples (10**3 after construction, uncertainty.py:110), bounded.
McSamples == 3
\* the external simulator returns SplineK + 1 samples (its nominal output),
\* MaxLen samples (a longer run), or at most SplineK samples (a run cut short)
MaxLen == 5
\* nodes of one batch for which the simulator returns the longer output
MaxDeviations == 2
\* createPCExpansion / pseudoMC invocations after which no new call starts
MaxRuns == 2
\* calls that change distributions after construction (setDistribution,
\* setAllDistributions, parameters.distribution = ...) in one behaviour
MaxSets == 1
\* most bytes of a byte string handed to MPIBackend._process_child_data
MaxData == 5
\* most bytes of the pickled result of a simulation of the MPI child
MaxPickle == 4
\* node evaluations started in one behaviour
MaxEvals == 2
\* method calls on one Dipole object
MaxCalls == 3
\* processes (nhosts) simulate_dipole runs on
MaxRanks == 3

(* --------------------------- program constants ------------------------- *)
\* InterpolatedUnivariateSpline(t, V, k=3)
SplineK == 3

(* ------------------------------ values --------------------------------- *)
\* parameter names of examples/bahl/uq_bahl.py
Names == {"e_pas", "apical Ra"}

\* self.M is a public attribute, 3 after construction (uncertainty.py:109);
\* the model takes a lower truncation degree to keep batches small
Degrees == {1}

\* numbers of samples one run of the simulator may return: none, the most the
\* spline constructor rejects, the nominal number, the number of a longer run
RawLengths == {0, SplineK} \cup {SplineK + 1, MaxLen}

\* nominal value of each parameter (scaled stand-ins for -80 and 261)
NominalValue(n) == IF n = "e_pas" THEN 2 ELSE 5

None == [kind |-> "None"]
Dist(lo, hi) == [kind |-> "Dist", lo |-> lo, hi |-> hi]
Func(f) == [kind |-> "Func", f |-> f]
Obj(v) == [kind |-> "Obj", v |-> v]

\* isinstance(x, cp.Dist)
IsDist(x) == x.kind = "Dist"

\* the generator function a caller may pass: "wide_if_big" returns a
\* distribution around the value it is given for values >= 4 and the value
\* itself (not a distribution) for smaller ones
Generators == {"wide_if_big"}

Call(f, v) ==
  CASE f = "wide_if_big" -> IF v >= 4 THEN Dist(v - 2, v + 2) ELSE Obj(v)

\* arguments of setDistribution
DistributionArgs ==
  {None, Dist(1, 2), Obj(0)} \cup {Func(f) : f \in Generators}

(* ------------------------ sequences, helpers --------------------------- *)
Range(s) == {s[i] : i \in DOMAIN s}

IndexOf(s, x) == CHOOSE i \in DOMAIN s : s[i] = x

VARIABLES
  registered,        \* the parameterlist given to Parameters(), as names in order
  parameters,        \* Parameters.parameters: dict name -> Parameter
  explicit,          \* the attribute parameters.distribution, None when never set
  lastCall,          \* the last distribution-setting call and whether it raised
  sets,              \* number of distribution-setting calls so far
  M,                 \* UncertaintyEstimation.M
  distribution,      \* self.distribution: the joint, a sequence of marginals
  P,                 \* self.P: the basis, a set of exponent tuples
  U_hat,             \* self.U_hat
  t,                 \* self.t
  stats,             \* self.E, self.Var, self.p_05, self.p_95, self.sensitivity
  tmp_parameter_name,\* self.tmp_parameter_name / parameter_name of pseudoMC
  origin,            \* the run that assigned self.distribution, self.P and
                     \* self.t (0: not assigned yet)
  pc,                \* stage the current run is in
  call,              \* the public method running: "all", "single", "mc", "none"
  queue,             \* singleParameters: uncertain parameters still to do
  cur,               \* parameter_name argument of the current run, "" for None
  nodes,             \* local nodes / samples, as a sequence of node vectors
  solves,            \* local solves
  index_max_len,     \* local index_max_len (1-based), 0 before alignment
  interpolated_solves, \* local interpolated_solves
  deviations,        \* nodes of this batch with a non-nominal length
  outstanding,       \* index of the node whose simulation has been started and
                     \* has not returned, 0 when there is none
  calls,             \* name -> value assignments the model was run with
  failed,            \* the node whose evaluation failed: its index, its vector,
                     \* the samples the simulator returned (-1: it failed)
  report,            \* what the failing evaluation printed
  runs,              \* createPCExpansion / pseudoMC invocations started
  child,             \* MPI child: "ready", "simulated", "written"
  sim_data,          \* bytes of the pickled result of the child's simulation
  stdout,            \* what the child has written to stdout
  stderr,            \* what the child has written to stderr
  parent,            \* result of the last MPIBackend._process_child_data call
  data0,             \* the command list the caller passes as data[0]
  evals,             \* evaluateNodeFunction / runParallel calls, by node
  files,             \* the temporary files: name -> node that wrote U and t
  dipole,            \* a Dipole object: units, t and the dict dpl
  method,            \* the methods called on the Dipole so far, latest last
  ranks              \* simulate_dipole on each rank: position, net, result

paramVars == <<registered, parameters, explicit, lastCall, sets>>
resultVars == <<distribution, P, U_hat, t, stats, tmp_parameter_name, origin>>
localVars ==
  <<nodes, solves, index_max_len, interpolated_solves, deviations, outstanding>>
ghostVars == <<calls, failed, report>>
ctlVars == <<pc, call, queue, cur, runs>>
uqVars == <<paramVars, M, resultVars, localVars, ghostVars, ctlVars>>
mpiVars == <<child, sim_data, stdout, stderr, parent>>
evalVars == <<data0, evals, files>>
dplVars == <<dipole, method>>
rankVars == <<ranks>>
hnnVars == <<mpiVars, evalVars, dplVars, rankVars>>
vars == <<uqVars, hnnVars>>

(* ------------------------- parameters.py ------------------------------- *)
\* CPython 2 str hash of the name, masked to the 8-slot table of a small
\* dict; a dict iterates by slot.  hash("e_pas") & 7 = 5, hash("apical Ra") & 7 = 2.
Slot(n) == IF n = "e_pas" THEN 5 ELSE 2

\* iteration order of a dict with key set S (no two names share a slot)
RECURSIVE DictOrder(_)
DictOrder(S) ==
  IF S = {} THEN <<>>
  ELSE LET m == CHOOSE x \in S : \A y \in S : Slot(x) <= Slot(y)
       IN <<m>> \o DictOrder(S \ {m})

\* setDistribution without the isinstance check on what the function returns
setDistributionUnchecked(p, d) ==
  CASE d.kind = "None" ->
         [param |-> [p EXCEPT !.parameter_space = None], raised |-> FALSE]
    [] d.kind = "Dist" ->
         [param |-> [p EXCEPT !.parameter_space = d], raised |-> FALSE]
    [] d.kind = "Func" ->
         [param |-> [p EXCEPT !.parameter_space = Call(d.f, p.value)],
          raised |-> FALSE]
    [] OTHER -> [param |-> p, raised |-> TRUE]

\* Parameter.setDistribution: the parameter afterwards, and whether it raised
setDistribution(p, d) ==
  CASE d.kind = "None" ->
         [param |-> [p EXCEPT !.parameter_space = None], raised |-> FALSE]
    [] d.kind = "Dist" ->
         [param |-> [p EXCEPT !.parameter_space = d], raised |-> FALSE]
    [] d.kind = "Func" ->
         LET r == Call(d.f, p.value)
         IN [param |-> [p EXCEPT !.parameter_space = r], raised |-> ~IsDist(r)]
    [] OTHER -> [param |-> p, raised |-> TRUE]

\* Parameter.__init__
NewParameter(name, value, d) ==
  setDistribution([name |-> name, value |-> value, parameter_space |-> None], d)

\* self.parameters.values()
ParameterValues ==
  LET order == DictOrder(DOMAIN parameters)
  IN [i \in DOMAIN order |-> parameters[order[i]]]

\* getUncertain listing the names in another order than the other attributes
getUncertainNamesReversed(item) ==
  LET unc == SelectSeq(ParameterValues, LAMBDA p : p.parameter_space # None)
  IN [i \in DOMAIN unc |->
        unc[IF item = "name" THEN Len(unc) + 1 - i ELSE i][item]]

\* Parameters.getUncertain
getUncertain(item) ==
  LET unc == SelectSeq(ParameterValues, LAMBDA p : p.parameter_space # None)
  IN [i \in DOMAIN unc |-> unc[i][item]]

\* Parameters.get
get(item) ==
  IF item \in DOMAIN parameters THEN parameters[item]
  ELSE [i \in DOMAIN ParameterValues |-> ParameterValues[i][item]]

\* Parameters.__init__ on a parameterlist of [name, value, distribution] rows
\* with distinct names: the dict it builds
NewParameters(names, args) ==
  [n \in Range(names) |-> NewParameter(n, NominalValue(n), args[n]).param]

\* Parameters.setAllDistributions: the loop stops at the first call that raises
RECURSIVE SetAllFrom(_, _, _)
SetAllFrom(ps, order, d) ==
  IF order = <<>> THEN [params |-> ps, raised |-> FALSE]
  ELSE LET r == setDistribution(ps[Head(order)], d)
           ps1 == [ps EXCEPT ![Head(order)] = r.param]
       IN IF r.raised THEN [params |-> ps1, raised |-> TRUE]
          ELSE SetAllFrom(ps1, Tail(order), d)

(* ------------------------- chaospy stand-ins --------------------------- *)
RECURSIVE SeqSum(_)
SeqSum(s) == IF s = <<>> THEN 0 ELSE Head(s) + SeqSum(Tail(s))

\* cp.J(*parameter_space): needs at least one argument, every one a cp.Dist
JAccepts(parameter_space) ==
  /\ parameter_space # <<>>
  /\ \A i \in DOMAIN parameter_space : IsDist(parameter_space[i])

\* cp.orth_ttr(M, dist): one polynomial per exponent tuple of total degree <= M
orth_ttr(m, dist) ==
  {e \in [1..Len(dist) -> 0..m] : SeqSum(e) <= m}

\* dist.sample(n, "M"): a deterministic low-discrepancy draw; component i of
\* draw j comes from the support of marginal i
SampleAt(d, j) == d.lo + ((j - 1) % (d.hi - d.lo + 1))

sample(dist, n) ==
  [j \in 1..n |-> [i \in DOMAIN dist |-> SampleAt(dist[i], j)]]

(* ------------------------- node evaluation ----------------------------- *)
\* tmp_parameters[parameter] = node[j]; j += 1
Unpack(names, node) ==
  [n \in Range(names) |-> node[IndexOf(names, n)]]

\* the external simulator: output sample k for a name -> value assignment
SimWeight(n) == IF n = "e_pas" THEN 1 ELSE 10

RECURSIVE SimBase(_, _)
SimBase(assign, S) ==
  IF S = {} THEN 0
  ELSE LET n == CHOOSE x \in S : TRUE
       IN SimWeight(n) * assign[n] + SimBase(assign, S \ {n})

\* (t, V) of one run of the simulator that returned len samples
Solve(assign, len) ==
  [t |-> [k \in 1..len |-> k],
   U |-> [k \in 1..len |-> SimBase(assign, DOMAIN assign) + k]]

\* a spline constructor that takes any number of samples
SplineAcceptsAny(len) == TRUE

\* InterpolatedUnivariateSpline(t, V, k=3) needs more than k samples
SplineAccepts(len) == len > SplineK

\* the interpolant of (s.t, s.U) at x: the sample itself on the own grid,
\* the cubic continuation through the last four samples beyond it
RECURSIVE SplineEval(_, _)
SplineEval(s, x) ==
  IF \E k \in DOMAIN s.t : s.t[k] = x
  THEN s.U[CHOOSE k \in DOMAIN s.t : s.t[k] = x]
  ELSE 4 * SplineEval(s, x - 1) - 6 * SplineEval(s, x - 2)
       + 4 * SplineEval(s, x - 3) - SplineEval(s, x - 4)

\* an argmax that returns the last index holding the greatest value
argmaxLast(lengths) ==
  CHOOSE i \in DOMAIN lengths :
    /\ \A j \in DOMAIN lengths : lengths[j] <= lengths[i]
    /\ \A j \in DOMAIN lengths : j > i => lengths[j] < lengths[i]

\* np.argmax(lengths): the first index holding the greatest value
argmax(lengths) ==
  CHOOSE i \in DOMAIN lengths :
    /\ \A j \in DOMAIN lengths : lengths[j] <= lengths[i]
    /\ \A j \in DOMAIN lengths : j < i => lengths[j] < lengths[i]

(* ------------------------------ Init ----------------------------------- *)
\* the time vector of a simulated dipole, in ms: one sample in each of the
\* three intervals of baseline_renormalize, two of them on the borders
times == <<37, 400, 750>>

\* Dipole.__init__(times, data) with the columns of data
Dipole(tvec, agg, L2, L5) ==
  [units |-> "fAm", N |-> Len(tvec), t |-> tvec,
   dpl |-> [agg |-> agg, L2 |-> L2, L5 |-> L5]]

\* the command list a caller of evaluateNodeFunction passes as data[0]
BaseCmd == <<"python", "simulation.py">>

NoResult == [by |-> 0]
NoStats == [E |-> 0, Var |-> 0, p_05 |-> 0, p_95 |-> 0, sensitivity |-> 0]
NoFailure == [index |-> 0, vector |-> <<>>, len |-> -1]
NoCall == [op |-> "none"]

\* distributions a parameterlist row may carry without Parameter() raising
InitArgs == {d \in DistributionArgs : d.kind \in {"None", "Dist"}}

Init ==
  /\ registered = <<"e_pas", "apical Ra">>
  /\ \E args \in [Range(registered) -> InitArgs] :
       parameters = NewParameters(registered, args)
  /\ explicit = None
  /\ lastCall = NoCall
  /\ sets = 0
  /\ M \in Degrees
  /\ distribution = <<>>
  /\ P = {}
  /\ U_hat = NoResult
  /\ t = <<>>
  /\ stats = NoStats
  /\ tmp_parameter_name = <<>>
  /\ origin = [distribution |-> 0, P |-> 0, t |-> 0]
  /\ pc = "Idle"
  /\ call = "none"
  /\ queue = <<>>
  /\ cur = ""
  /\ nodes = <<>>
  /\ solves = <<>>
  /\ index_max_len = 0
  /\ interpolated_solves = <<>>
  /\ deviations = 0
  /\ outstanding = 0
  /\ calls = <<>>
  /\ failed = NoFailure
  /\ report = <<>>
  /\ runs = 0
  /\ child = "ready"
  /\ sim_data = 0
  /\ stdout = <<>>
  /\ stderr = <<>>
  /\ parent = [op |-> "none"]
  /\ data0 = BaseCmd
  /\ evals = <<>>
  /\ files = [f \in {} |-> 0]
  /\ dipole = [units |-> "none"]
  /\ method = <<>>
  /\ ranks = <<>>

\* no public method is running
Between == pc \in {"Idle", "Done", "Aborted"} /\ queue = <<>>

\* calls, failed and report describe the latest run, lastCall the latest
\* distribution-setting call: each is forgotten when the next call is made
ForgetOutput ==
  /\ calls' = <<>>
  /\ failed' = NoFailure
  /\ report' = <<>>

(* ------------------- configuration of the parameters ------------------- *)
\* Parameters.setDistribution(parameter, distribution)
SetDistribution(n, d) ==
  /\ Between /\ sets < MaxSets
  /\ n \in DOMAIN parameters
  /\ LET r == setDistribution(parameters[n], d)
     IN /\ parameters' = [parameters EXCEPT ![n] = r.param]
        /\ lastCall' = [op |-> "setDistribution", name |-> n, arg |-> d,
                        raised |-> r.raised]
  /\ sets' = sets + 1
  /\ ForgetOutput
  /\ UNCHANGED <<registered, explicit, M, resultVars, localVars, ctlVars>>
  /\ UNCHANGED hnnVars

\* Parameters.setAllDistributions(distribution)
SetAllDistributions(d) ==
  /\ Between /\ sets < MaxSets
  /\ LET r == SetAllFrom(parameters, DictOrder(DOMAIN parameters), d)
     IN /\ parameters' = r.params
        /\ lastCall' = [op |-> "setAllDistributions", name |-> "", arg |-> d,
                        raised |-> r.raised]
  /\ sets' = sets + 1
  /\ ForgetOutput
  /\ UNCHANGED <<registered, explicit, M, resultVars, localVars, ctlVars>>
  /\ UNCHANGED hnnVars

\* dimensions of the multivariate distributions a caller may supply
ExplicitDims == {3}

\* parameters.distribution = dist: Parameters defines no such attribute and
\* no setter, so the assignment stores the object and checks nothing
SetExplicitDistribution(dim) ==
  /\ Between /\ sets < MaxSets
  /\ explicit' = [kind |-> "MvNormal", dim |-> dim]
  /\ lastCall' = [op |-> "distribution", name |-> "", arg |-> explicit',
                  raised |-> FALSE]
  /\ sets' = sets + 1
  /\ ForgetOutput
  /\ UNCHANGED <<registered, parameters, M, resultVars, localVars, ctlVars>>
  /\ UNCHANGED hnnVars

(* ----------------------------- one run --------------------------------- *)
\* self.parameters.uncertain_parameters
uncertain_parameters == getUncertain("name")

ClearLocals ==
  /\ nodes' = <<>>
  /\ solves' = <<>>
  /\ index_max_len' = 0
  /\ interpolated_solves' = <<>>
  /\ deviations' = 0
  /\ outstanding' = 0

\* entry of createPCExpansion(name) or pseudoMC(name); name "" stands for None
BeginRun(c, name, q) ==
  /\ pc' = "ComposeDistribution"
  /\ call' = c
  /\ cur' = name
  /\ queue' = q
  /\ runs' = runs + 1
  /\ ClearLocals
  /\ ForgetOutput
  /\ lastCall' = NoCall
  /\ UNCHANGED <<registered, parameters, explicit, sets, M, resultVars>>
  /\ UNCHANGED hnnVars

\* a public method returns without running anything
ReturnAtOnce(c) ==
  /\ pc' = "Done"
  /\ call' = c
  /\ ForgetOutput
  /\ lastCall' = NoCall
  /\ UNCHANGED <<queue, cur, runs, registered, parameters, explicit, sets, M,
                 resultVars, localVars>>
  /\ UNCHANGED hnnVars

\* singleParameters(): the loop over the uncertain parameters
EnterSingleParameters ==
  IF uncertain_parameters = <<>> THEN ReturnAtOnce("single")
  ELSE BeginRun("single", Head(uncertain_parameters), Tail(uncertain_parameters))

SingleParameters ==
  /\ Between /\ runs < MaxRuns
  /\ EnterSingleParameters

\* allParameters() with at most one uncertain parameter
AllParametersFewParameters ==
  /\ Between /\ runs < MaxRuns
  /\ Len(uncertain_parameters) <= 1
  /\ IF U_hat = NoResult THEN EnterSingleParameters ELSE ReturnAtOnce("all")

\* allParameters() with several uncertain parameters
AllParameters ==
  /\ Between /\ runs < MaxRuns
  /\ Len(uncertain_parameters) > 1
  /\ BeginRun("all", "", <<>>)

\* pseudoMC(parameter_name)
PseudoMC(name) ==
  /\ Between /\ runs < MaxRuns
  /\ name \in DOMAIN parameters \cup {""}
  /\ BeginRun("mc", name, <<>>)

\* an exception leaves the method: its locals are gone
Abort ==
  /\ pc' = "Aborted"
  /\ queue' = <<>>
  /\ ClearLocals
  /\ UNCHANGED <<call, cur, runs>>

\* a run that keeps the joint distribution of an earlier run when there is one
ComposeDistributionOnce ==
  /\ pc = "ComposeDistribution"
  /\ LET parameter_space ==
           IF cur = "" THEN getUncertain("parameter_space")
           ELSE <<get(cur).parameter_space>>
         names == IF cur = "" THEN getUncertain("name") ELSE <<cur>>
     IN /\ tmp_parameter_name' = names
        /\ IF JAccepts(parameter_space)
           THEN /\ distribution' =
                     IF distribution = <<>> THEN parameter_space ELSE distribution
                /\ origin' = [origin EXCEPT !.distribution = runs]
                /\ pc' = "GenerateNodes"
                /\ UNCHANGED <<call, queue, cur, runs, localVars>>
           ELSE /\ Abort
                /\ UNCHANGED <<distribution, origin>>
  /\ UNCHANGED <<paramVars, M, P, U_hat, t, stats, ghostVars>>
  /\ UNCHANGED hnnVars

\* createPCExpansion lines 164-173, pseudoMC lines 266-273
ComposeDistribution ==
  /\ pc = "ComposeDistribution"
  /\ LET parameter_space ==
           IF cur = "" THEN getUncertain("parameter_space")
           ELSE <<get(cur).parameter_space>>
         names == IF cur = "" THEN getUncertain("name") ELSE <<cur>>
     IN /\ tmp_parameter_name' = names
        /\ IF JAccepts(parameter_space)
           THEN /\ distribution' = parameter_space
                /\ origin' = [origin EXCEPT !.distribution = runs]
                /\ pc' = "GenerateNodes"
                /\ UNCHANGED <<call, queue, cur, runs, localVars>>
           ELSE /\ Abort
                /\ UNCHANGED <<distribution, origin>>
  /\ UNCHANGED <<paramVars, M, P, U_hat, t, stats, ghostVars>>
  /\ UNCHANGED hnnVars

\* a node set as large as the basis instead of twice as large
NodeCountHalved(basis) == IF call = "mc" THEN McSamples ELSE Cardinality(basis)

\* len(nodes.T): createPCExpansion line 175, pseudoMC line 274
NodeCount(basis) == IF call = "mc" THEN McSamples ELSE 2 * Cardinality(basis)

\* createPCExpansion lines 174-175, pseudoMC line 274
GenerateNodes ==
  /\ pc = "GenerateNodes"
  /\ LET basis == IF call = "mc" THEN P ELSE orth_ttr(M, distribution)
     IN /\ P' = basis
        /\ origin' = IF call = "mc" THEN origin ELSE [origin EXCEPT !.P = runs]
        /\ nodes' = sample(distribution, NodeCount(basis))
  /\ pc' = "Evaluate"
  /\ UNCHANGED <<solves, index_max_len, interpolated_solves, deviations,
                 outstanding>>
  /\ UNCHANGED <<paramVars, M, distribution, U_hat, t, stats, tmp_parameter_name,
                 ghostVars, call, queue, cur, runs>>
  /\ UNCHANGED hnnVars

\* what evaluateNodeFunction prints before sys.exit(1): the simulator's
\* stdout, a fixed line, the simulator's stderr
Text(v) == [kind |-> "text", v |-> v]

FailureReport(index, node) ==
  <<Text("ut"), Text("Error when running simulation:"), Text("err")>>

\* the node the loop is at
NextNode == Len(solves) + 1

\* a loop that ends one node early
LastNodeEarly == NextNode >= Len(nodes) - 1

\* the loop is at the last node of the batch
LastNode == NextNode = Len(nodes)

\* results collected at the front of the list, latest first
CollectFirst(ss, s) == <<s>> \o ss

\* solves.append(...)
Collect(ss, s) == Append(ss, s)

\* one pass of the evaluation loop in which the simulator returns len samples:
\* runParallelFunction (lines 200-228), the body of pseudoMC's loop (279-306),
\* evaluateNodeFunction (lines 32-98)
EvaluateNode(len) ==
  /\ pc = "Evaluate" /\ outstanding = 0
  /\ NextNode <= Len(nodes)
  /\ LET node == nodes[NextNode]
         tmp_parameters == Unpack(tmp_parameter_name, node)
         dev == deviations + (IF len = SplineK + 1 THEN 0 ELSE 1)
     IN /\ calls' = Append(calls, tmp_parameters)
        /\ IF SplineAccepts(len)
           THEN /\ dev <= MaxDeviations
                /\ deviations' = dev
                /\ solves' = Collect(solves, Solve(tmp_parameters, len))
                /\ pc' = IF LastNode THEN "Align" ELSE "Evaluate"
                /\ UNCHANGED <<nodes, index_max_len, interpolated_solves,
                               outstanding, failed, report, call, queue, cur,
                               runs>>
           ELSE /\ failed' = [index |-> NextNode, vector |-> node, len |-> len]
                /\ report' = <<>>
                /\ Abort
  /\ UNCHANGED <<paramVars, M, resultVars>>
  /\ UNCHANGED hnnVars

\* a loop that does not look at the outcome of the simulation and goes on
\* with the nominal output
EvaluateNodeFailsUnnoticed ==
  /\ pc = "Evaluate" /\ outstanding = 0
  /\ NextNode <= Len(nodes)
  /\ LET node == nodes[NextNode]
         tmp_parameters == Unpack(tmp_parameter_name, node)
     IN /\ calls' = Append(calls, tmp_parameters)
        /\ failed' = [index |-> NextNode, vector |-> node, len |-> -1]
        /\ solves' = Collect(solves, Solve(tmp_parameters, SplineK + 1))
  /\ pc' = IF LastNode THEN "Align" ELSE "Evaluate"
  /\ UNCHANGED <<nodes, index_max_len, interpolated_solves, deviations,
                 outstanding, report, call, queue, cur, runs>>
  /\ UNCHANGED <<paramVars, M, resultVars>>
  /\ UNCHANGED hnnVars

\* a loop that runs the model once more for a node whose evaluation failed
EvaluateNodeFailsRetries ==
  /\ pc = "Evaluate" /\ outstanding = 0
  /\ NextNode <= Len(nodes)
  /\ LET node == nodes[NextNode]
         tmp_parameters == Unpack(tmp_parameter_name, node)
     IN /\ calls' = calls \o <<tmp_parameters, tmp_parameters>>
        /\ failed' = [index |-> NextNode, vector |-> node, len |-> -1]
        /\ report' = FailureReport(NextNode, node)
  /\ Abort
  /\ UNCHANGED <<paramVars, M, resultVars>>
  /\ UNCHANGED hnnVars

\* one pass of the loop in which the simulator fails: an exception out of
\* runParallelFunction, model.run() == -1 in pseudoMC (line 292), a non-zero
\* return code in evaluateNodeFunction (lines 60-64)
EvaluateNodeFails ==
  /\ pc = "Evaluate" /\ outstanding = 0
  /\ NextNode <= Len(nodes)
  /\ LET node == nodes[NextNode]
     IN /\ calls' = Append(calls, Unpack(tmp_parameter_name, node))
        /\ failed' = [index |-> NextNode, vector |-> node, len |-> -1]
        /\ report' = FailureReport(NextNode, node)
  /\ Abort
  /\ UNCHANGED <<paramVars, M, resultVars>>
  /\ UNCHANGED hnnVars

\* one pass of the loop in which the simulator never ends: communicate()
\* (evaluateNodeFunction line 55), sim.runSimulation() (line 216) and
\* model.run() (line 292) are called without a time limit and do not return
EvaluateNodeHangs ==
  /\ pc = "Evaluate" /\ outstanding = 0
  /\ NextNode <= Len(nodes)
  /\ calls' = Append(calls, Unpack(tmp_parameter_name, nodes[NextNode]))
  /\ outstanding' = NextNode
  /\ UNCHANGED <<nodes, solves, index_max_len, interpolated_solves, deviations,
                 failed, report>>
  /\ UNCHANGED <<paramVars, M, resultVars, ctlVars>>
  /\ UNCHANGED hnnVars

\* every interpolant evaluated on the time vector of its own raw result
InterpolateOwnGrid(ss, grid) ==
  [i \in DOMAIN ss |-> [k \in DOMAIN ss[i].t |-> SplineEval(ss[i], ss[i].t[k])]]

\* interpolated_solves: every interpolant evaluated on the grid
Interpolate(ss, grid) ==
  [i \in DOMAIN ss |-> [k \in DOMAIN grid |-> SplineEval(ss[i], grid[k])]]

\* an alignment after which the statistics are computed without a fit
AlignSkipsFit ==
  /\ pc = "Align"
  /\ LET lengths == [i \in DOMAIN solves |-> Len(solves[i].t)]
         imax == argmax(lengths)
     IN /\ index_max_len' = imax
        /\ t' = solves[imax].t
        /\ origin' = [origin EXCEPT !.t = runs]
        /\ interpolated_solves' = Interpolate(solves, solves[imax].t)
  /\ pc' = "Statistics"
  /\ UNCHANGED <<nodes, solves, deviations, outstanding>>
  /\ UNCHANGED <<paramVars, M, distribution, P, U_hat, stats, tmp_parameter_name,
                 ghostVars, call, queue, cur, runs>>
  /\ UNCHANGED hnnVars

\* createPCExpansion lines 248-258, pseudoMC lines 312-322
Align ==
  /\ pc = "Align"
  /\ LET lengths == [i \in DOMAIN solves |-> Len(solves[i].t)]
         imax == argmax(lengths)
     IN /\ index_max_len' = imax
        /\ t' = solves[imax].t
        /\ origin' = [origin EXCEPT !.t = runs]
        /\ interpolated_solves' = Interpolate(solves, solves[imax].t)
  /\ pc' = IF call = "mc" THEN "Statistics" ELSE "Fit"
  /\ UNCHANGED <<nodes, solves, deviations, outstanding>>
  /\ UNCHANGED <<paramVars, M, distribution, P, U_hat, stats, tmp_parameter_name,
                 ghostVars, call, queue, cur, runs>>
  /\ UNCHANGED hnnVars

\* cp.fit_regression(self.P, nodes, interpolated_solves, rule="T")
fit_regression(basis, ns, values) ==
  [by |-> runs, nbasis |-> Cardinality(basis), nnodes |-> Len(ns),
   ntime |-> Len(values[1])]

\* createPCExpansion line 261
Fit ==
  /\ pc = "Fit"
  /\ U_hat' = fit_regression(P, nodes, interpolated_solves)
  /\ pc' = "Statistics"
  /\ UNCHANGED <<paramVars, M, distribution, P, t, stats, tmp_parameter_name,
                 origin, localVars, ghostVars, call, queue, cur, runs>>
  /\ UNCHANGED hnnVars

\* the fields each method assigns: pseudoMC lines 324-325, singleParameters
\* lines 341-351, allParameters lines 373-391
StatisticsOf(c) ==
  CASE c = "mc" -> [stats EXCEPT !.E = runs, !.Var = runs]
    [] c = "single" ->
         [stats EXCEPT !.E = runs, !.Var = runs, !.p_05 = runs, !.p_95 = runs]
    [] OTHER ->
         [E |-> runs, Var |-> runs, p_05 |-> runs, p_95 |-> runs,
          sensitivity |-> runs]

\* the fields in the order in which each method assigns them
StatFields(c) ==
  CASE c = "mc" -> <<"E", "Var">>
    [] c = "single" -> <<"E", "Var", "p_05", "p_95">>
    [] OTHER -> <<"E", "Var", "sensitivity", "p_05", "p_95">>

\* the fields after the first k assignments of the statistics
StatisticsUpTo(c, k) ==
  [f \in DOMAIN stats |->
     IF \E i \in 1..k : StatFields(c)[i] = f THEN runs ELSE stats[f]]

\* statistics that run the model once more, for the first node of the batch
StatisticsReevaluates ==
  /\ pc = "Statistics"
  /\ stats' = StatisticsOf(call)
  /\ calls' = Append(calls, calls[1])
  /\ pc' = "Done"
  /\ ClearLocals
  /\ UNCHANGED <<paramVars, M, distribution, P, U_hat, t, tmp_parameter_name,
                 origin, failed, report, call, queue, cur, runs>>
  /\ UNCHANGED hnnVars

Statistics ==
  /\ pc = "Statistics"
  /\ stats' = StatisticsOf(call)
  /\ pc' = "Done"
  /\ ClearLocals
  /\ UNCHANGED <<paramVars, M, distribution, P, U_hat, t, tmp_parameter_name,
                 origin, ghostVars, call, queue, cur, runs>>
  /\ UNCHANGED hnnVars

\* the statements of the statistics that build large arrays: the first one
\* (cp.E, np.sum) and the evaluation of the surrogate on the mc_samples
\* samples, as the number of fields assigned before them
StatFailPoints(c) ==
  {0} \cup {k \in 1..Len(StatFields(c)) - 1 : StatFields(c)[k + 1] = "p_05"}

\* a MemoryError after k of the assignments: the method prints "Memory error,
\* calculations aborted" and returns, the fields assigned so far stay
StatisticsFails(k) ==
  /\ pc = "Statistics"
  /\ k \in StatFailPoints(call)
  /\ stats' = StatisticsUpTo(call, k)
  /\ Abort
  /\ UNCHANGED <<paramVars, M, distribution, P, U_hat, t, tmp_parameter_name,
                 origin, ghostVars>>
  /\ UNCHANGED hnnVars

\* singleParameters: the loop goes on to the next uncertain parameter
NextSingleParameter ==
  /\ pc = "Done" /\ queue # <<>>
  /\ BeginRun("single", Head(queue), Tail(queue))

Next ==
  \/ \E n \in Names, d \in DistributionArgs : SetDistribution(n, d)
  \/ \E d \in DistributionArgs : SetAllDistributions(d)
  \/ \E dim \in ExplicitDims : SetExplicitDistribution(dim)
  \/ SingleParameters
  \/ AllParametersFewParameters
  \/ AllParameters
  \/ \E n \in Names \cup {""} : PseudoMC(n)
  \/ ComposeDistribution
  \/ GenerateNodes
  \/ \E len \in RawLengths : EvaluateNode(len)
  \/ EvaluateNodeFails
  \/ EvaluateNodeHangs
  \/ Align
  \/ Fit
  \/ Statistics
  \/ \E k \in 0..4 : StatisticsFails(k)
  \/ NextSingleParameter

Spec == Init /\ [][Next]_vars

(* ============ MPI child process and its parent ========================= *)
(* hnn_core.mpi_child.MPISimulation and                                    *)
(* hnn_core.parallel_backends.MPIBackend are used by                       *)
(* src/hnn_core/tests/test_mpi_child.py; their own text is not in src.     *)
(* The definitions below take their behaviour from the calls and the       *)
(* expectations of those tests.                                            *)

\* a byte of a byte string: a character of the base64 alphabet, the base64
\* pad character, any other byte (b'\0' in test_data_len_mismatch)
Bytes == {"A", "=", "0"}

\* the byte strings of at most n bytes
ByteStrings(n) == UNION {[1..k -> Bytes] : k \in 0..n}

Repeat(c, n) == [i \in 1..n |-> c]

\* an encoder that leaves the pad characters out
B64EncodeUnpadded(n) ==
  Repeat("A", 4 * (n \div 3)) \o
    (CASE n % 3 = 0 -> <<>>
       [] n % 3 = 1 -> <<"A", "A">>
       [] n % 3 = 2 -> <<"A", "A", "A">>)

\* base64 of a byte string of n bytes: four characters for every three
\* bytes, the last group filled up with pad characters
B64Encode(n) ==
  Repeat("A", 4 * (n \div 3)) \o
    (CASE n % 3 = 0 -> <<>>
       [] n % 3 = 1 -> <<"A", "A", "=", "=">>
       [] n % 3 = 2 -> <<"A", "A", "A", "=">>)

\* number of bytes base64 decoding gives: six bits for every character of
\* the alphabet, other bytes are skipped
B64Decode(data) == (3 * Len(SelectSeq(data, LAMBDA b : b = "A"))) \div 4

\* "Incorrect padding for data length  10 bytes (mod 4 = 2)": base64 text
\* comes in groups of four bytes
PaddingFits(data) == Len(data) % 4 = 0

RuntimeError(msg, data, data_len) ==
  [op |-> "raise", msg |-> msg, expecting |-> data_len, got |-> Len(data)]

\* a parent that decodes whatever arrived
process_child_data_unchecked(data, data_len) ==
  [op |-> "return", bytes |-> B64Decode(data)]

\* MPIBackend._process_child_data(data_bytes, data_len)
process_child_data(data, data_len) ==
  IF Len(data) = 0
    THEN RuntimeError("MPI simulation didn't return any data", data, data_len)
  ELSE IF Len(data) # data_len
    THEN RuntimeError("Failed to receive all data from the child MPI process",
                      data, data_len)
  ELSE IF ~PaddingFits(data)
    THEN RuntimeError("Incorrect padding for data length", data, data_len)
  ELSE [op |-> "return", bytes |-> B64Decode(data)]

\* MPISimulation.run(params): the simulation ends and is announced on stdout
run(n) ==
  /\ child = "ready"
  /\ sim_data' = n
  /\ stdout' = Append(stdout, [line |-> "end_of_sim"])
  /\ child' = "simulated"
  /\ UNCHANGED <<stderr, parent, uqVars, evalVars, dplVars, rankVars>>

\* MPISimulation._write_data_stderr(sim_data): the encoded data go to stderr,
\* their length to stdout
write_data_stderr ==
  /\ child = "simulated"
  /\ stderr' = stderr \o B64Encode(sim_data)
  /\ stdout' = Append(stdout,
                      [line |-> "end_of_data:", len |-> Len(B64Encode(sim_data))])
  /\ child' = "written"
  /\ UNCHANGED <<sim_data, parent, uqVars, evalVars, dplVars, rankVars>>

\* the length the child announced after "end_of_data:"
expected_len == stdout[Len(stdout)].len

\* the parent hands over what it read from the child's stderr
ProcessChildOutput ==
  /\ child = "written"
  /\ parent' = [op |-> "call", of |-> "child",
                data |-> stderr, data_len |-> expected_len,
                result |-> process_child_data(stderr, expected_len)]
  /\ child' = "read"
  /\ UNCHANGED <<sim_data, stdout, stderr>>
  /\ UNCHANGED <<uqVars, evalVars, dplVars, rankVars>>

\* backend._process_child_data(data, data_len) called with given bytes
ProcessGivenData ==
  /\ child = "ready" /\ parent.op = "none"
  /\ \E data \in ByteStrings(MaxData), data_len \in 0..(MaxData + 1) :
       parent' = [op |-> "call", of |-> "given",
                  data |-> data, data_len |-> data_len,
                  result |-> process_child_data(data, data_len)]
  /\ UNCHANGED <<child, sim_data, stdout, stderr>>
  /\ UNCHANGED <<uqVars, evalVars, dplVars, rankVars>>

InitMPI ==
  /\ Init
  /\ \A n \in Names : parameters[n].parameter_space = None

\* pickle.dumps(sim_data) is never empty
PickledSizes == 1..MaxPickle

NextMPI ==
  \/ \E n \in PickledSizes : run(n)
  \/ write_data_stderr
  \/ ProcessChildOutput
  \/ ProcessGivenData

SpecMPI == InitMPI /\ [][NextMPI]_vars

(* ============ node evaluations in worker processes ===================== *)
(* src/src/evaluateNodeFunction.py evaluateNodeFunction and                *)
(* src/uncertainty.py UncertaintyEstimation.runParallel: the simulation    *)
(* leaves its output in files that the evaluation then loads.              *)

\* mp.current_process().name.split("-") of the processes an evaluation may
\* run in: two workers of a Pool, a Process started by hand, the main one
Procs == {<<"PoolWorker", "1">>, <<"PoolWorker", "2">>, <<"Process", "1">>,
          <<"MainProcess">>}

\* evaluateNodeFunction.py 42-46
current_process(name) ==
  IF name[1] = "PoolWorker" THEN name[Len(name)] ELSE "0"

\* the pair of files an evaluation uses: .tmp_U_%s.npy / .tmp_t_%s.npy of
\* evaluateNodeFunction, tmp_U.npy / tmp_t.npy of runParallel
FileOf(kind, name) ==
  IF kind = "evaluateNodeFunction" THEN ".tmp_" \o current_process(name)
  ELSE "tmp"

\* the node of evaluation e, in the order of tmp_parameter_names
NodeOf(e) == <<e, e + MaxEvals>>

tmp_parameter_names == <<"e_pas", "apical Ra">>

\* cmd + [...] done in place: the list of the caller grows
ListAddInPlace(l, more) == [same |-> TRUE, items |-> l \o more]

\* cmd + [...]: a new list object, the operands are left alone
ListAdd(l, more) == [same |-> FALSE, items |-> l \o more]

\* for parameter in tmp_parameters: cmd.append(parameter);
\* cmd.append(str(tmp_parameters[parameter]))
RECURSIVE AppendPairs(_, _, _)
AppendPairs(cmd, order, tmp_parameters) ==
  IF order = <<>> THEN cmd
  ELSE AppendPairs(cmd \o <<Head(order), ToString(tmp_parameters[Head(order)])>>,
                   Tail(order), tmp_parameters)

\* evaluateNodeFunction.py 23-52: the command of one evaluation, and the
\* list object data[0] afterwards
BuildCmd(base, name, node) ==
  LET tmp_parameters == Unpack(tmp_parameter_names, node)
      cmd == ListAdd(base, <<"--CPU", current_process(name),
                             "--save_path", "filedir", "--parameters">>)
      full == AppendPairs(cmd.items, DictOrder(DOMAIN tmp_parameters),
                          tmp_parameters)
  IN [cmd |-> full, data0 |-> IF cmd.same THEN full ELSE base]

Running(e) == evals[e].pc \notin {"done", "IOError", "OSError"}

Busy(name) == \E e \in DOMAIN evals : evals[e].proc = name /\ Running(e)

\* a process that is free takes the next node
StartEvaluation(kind, name) ==
  /\ Len(evals) < MaxEvals
  /\ ~Busy(name)
  /\ LET e == Len(evals) + 1
         b == BuildCmd(data0, name, NodeOf(e))
         f == FileOf(kind, name)
     IN /\ evals' = Append(evals,
                           [kind |-> kind, proc |-> name, file |-> f,
                            cmd |-> IF kind = "evaluateNodeFunction"
                                    THEN b.cmd ELSE <<>>,
                            pc |-> "simulate", U |-> 0, t |-> 0])
        /\ data0' = IF kind = "evaluateNodeFunction" THEN b.data0 ELSE data0
        /\ files' = IF f \in DOMAIN files THEN files
                    ELSE [g \in DOMAIN files \cup {f} |->
                            IF g = f THEN [U |-> 0, t |-> 0] ELSE files[g]]
  /\ UNCHANGED <<uqVars, mpiVars, dplVars, rankVars>>

\* simulation.communicate() / self.model.runParallel(tmp_parameters): the
\* simulation has written the arrays of its node to its two files
Simulate(e) ==
  /\ e \in DOMAIN evals /\ evals[e].pc = "simulate"
  /\ files' = [files EXCEPT ![evals[e].file] = [U |-> e, t |-> e]]
  /\ evals' = [evals EXCEPT ![e].pc = "loadU"]
  /\ UNCHANGED <<data0, uqVars, mpiVars, dplVars, rankVars>>

\* U = np.load(...): raises when the file is not there
LoadU(e) ==
  /\ e \in DOMAIN evals /\ evals[e].pc = "loadU"
  /\ evals' = IF files[evals[e].file].U = 0
              THEN [evals EXCEPT ![e].pc = "IOError"]
              ELSE [evals EXCEPT ![e].pc = "loadT",
                                 ![e].U = files[evals[e].file].U]
  /\ UNCHANGED <<data0, files, uqVars, mpiVars, dplVars, rankVars>>

\* t = np.load(...); runParallel is done with its files here
LoadT(e) ==
  /\ e \in DOMAIN evals /\ evals[e].pc = "loadT"
  /\ evals' = IF files[evals[e].file].t = 0
              THEN [evals EXCEPT ![e].pc = "IOError"]
              ELSE [evals EXCEPT ![e].pc = IF evals[e].kind = "runParallel"
                                           THEN "done" ELSE "removeU",
                                 ![e].t = files[evals[e].file].t]
  /\ UNCHANGED <<data0, files, uqVars, mpiVars, dplVars, rankVars>>

\* os.remove(.tmp_U_%s.npy): raises when the file is not there
RemoveU(e) ==
  /\ e \in DOMAIN evals /\ evals[e].pc = "removeU"
  /\ IF files[evals[e].file].U = 0
       THEN /\ evals' = [evals EXCEPT ![e].pc = "OSError"]
            /\ UNCHANGED files
       ELSE /\ evals' = [evals EXCEPT ![e].pc = "removeT"]
            /\ files' = [files EXCEPT ![evals[e].file].U = 0]
  /\ UNCHANGED <<data0, uqVars, mpiVars, dplVars, rankVars>>

\* os.remove(.tmp_t_%s.npy)
RemoveT(e) ==
  /\ e \in DOMAIN evals /\ evals[e].pc = "removeT"
  /\ IF files[evals[e].file].t = 0
       THEN /\ evals' = [evals EXCEPT ![e].pc = "OSError"]
            /\ UNCHANGED files
       ELSE /\ evals' = [evals EXCEPT ![e].pc = "done"]
            /\ files' = [files EXCEPT ![evals[e].file].t = 0]
  /\ UNCHANGED <<data0, uqVars, mpiVars, dplVars, rankVars>>

InitEval == InitMPI

NextEval ==
  \/ \E kind \in {"evaluateNodeFunction", "runParallel"}, name \in Procs :
       StartEvaluation(kind, name)
  \/ \E e \in 1..MaxEvals : Simulate(e)
  \/ \E e \in 1..MaxEvals : LoadU(e)
  \/ \E e \in 1..MaxEvals : LoadT(e)
  \/ \E e \in 1..MaxEvals : RemoveU(e)
  \/ \E e \in 1..MaxEvals : RemoveT(e)

SpecEval == InitEval /\ [][NextEval]_vars

(* ============ Dipole ==================================================== *)
(* src/mne_neuron/dipole.py class Dipole. Numbers are kept in millionths   *)
(* (six decimals): the stored integer is the number times 10^6.            *)
Micro == 1000000

\* x * y for a stored x and a factor y given in millionths
MulMicro(x, y) == (x * y) \div Micro

\* the dipole data a simulation or a file may give, per time sample
DataColumns == {<<1 * Micro, 2 * Micro, 3 * Micro>>,
                <<-2 * Micro, 0, 5 * Micro>>}

ArrayAdd(a, b) == [i \in DOMAIN a |-> a[i] + b[i]]

\* params['N_pyr_x'], params['N_pyr_y']
Params == {[N_pyr_x |-> 1, N_pyr_y |-> 1], [N_pyr_x |-> 2, N_pyr_y |-> 2]}

\* _hammfilt(x, winsz): convolution with a normalised window, 'same' size;
\* a three-tap window (1/4, 1/2, 1/4) stands for the hamming window
hammfilt(x, winsz) ==
  [i \in DOMAIN x |->
     (x[i] \div 2)
     + (IF i > 1 THEN x[i - 1] \div 4 ELSE 0)
     + (IF i < Len(x) THEN x[i + 1] \div 4 ELSE 0)]

\* Dipole.convert_fAm_to_nAm: every array times 1e-6, units = 'nAm'
convert_fAm_to_nAm(d) ==
  [d EXCEPT !.dpl = [key \in DOMAIN d.dpl |->
                       [i \in DOMAIN d.dpl[key] |-> MulMicro(d.dpl[key][i], 1)]],
            !.units = "nAm"]

\* Dipole.scale(fctr)
scale(d, fctr) ==
  [d EXCEPT !.dpl = [key \in DOMAIN d.dpl |->
                       [i \in DOMAIN d.dpl[key] |-> d.dpl[key][i] * fctr]]]

\* Dipole.smooth(winsz)
smooth(d, winsz) ==
  IF winsz <= 1 THEN d
  ELSE [d EXCEPT !.dpl = [key \in DOMAIN d.dpl |-> hammfilt(d.dpl[key], winsz)]]

\* what baseline_renormalize subtracts from L5 at time tt (ms), in
\* millionths: N_pyr * -49.0502 up to 37 ms, N_pyr * (m * t + b) with
\* m = 3.4770508e-3 (kept as 3477 millionths), b = -51.231085 below 750 ms,
\* N_pyr * (m1 * t + b1) with m1 = 1.01e-4, b1 = -48.412078 from 750 ms on
L5Offset(N_pyr, tt) ==
  IF tt <= 37 THEN N_pyr * (-49050200)
  ELSE IF tt < 750 THEN N_pyr * (3477 * tt + (-51231085))
  ELSE N_pyr * (101 * tt + (-48412078))

\* the renormalization of lines 281-323 whatever the units are
renormalize(d, params) ==
  LET N_pyr == params.N_pyr_x * params.N_pyr_y
      L2 == [i \in DOMAIN d.dpl.L2 |-> d.dpl.L2[i] - N_pyr * 44300]
      L5 == [i \in DOMAIN d.dpl.L5 |->
               d.dpl.L5[i] - L5Offset(N_pyr, d.t[i])]
  IN [d EXCEPT !.dpl = [agg |-> ArrayAdd(L2, L5), L2 |-> L2, L5 |-> L5]]

\* a baseline_renormalize that does not look at the units
baseline_renormalize_any_units(d, params) == renormalize(d, params)

\* Dipole.baseline_renormalize(params)
baseline_renormalize(d, params) ==
  IF d.units # "fAm" THEN d
  ELSE IF "L2" \notin DOMAIN d.dpl /\ "L5" \notin DOMAIN d.dpl THEN d
  ELSE renormalize(d, params)

\* one more method call on the Dipole object
Called(name) ==
  /\ method # <<>> /\ Len(method) <= MaxCalls
  /\ method' = Append(method, name)
  /\ UNCHANGED <<uqVars, mpiVars, evalVars, rankVars>>

ConvertFAmToNAm ==
  /\ Called("convert_fAm_to_nAm")
  /\ dipole' = convert_fAm_to_nAm(dipole)

Scale(fctr) ==
  /\ Called("scale")
  /\ dipole' = scale(dipole, fctr)

Smooth(winsz) ==
  /\ Called("smooth")
  /\ dipole' = smooth(dipole, winsz)

BaselineRenormalize(params) ==
  /\ Called("baseline_renormalize")
  /\ dipole' = baseline_renormalize(dipole, params)

\* Dipole(times, data): built from times and an (n_times x 3) array
NewDipole(agg, L2, L5) ==
  /\ method = <<>>
  /\ method' = <<"__init__">>
  /\ dipole' = Dipole(times, agg, L2, L5)
  /\ UNCHANGED <<uqVars, mpiVars, evalVars, rankVars>>

InitDipole == InitMPI

NextDipole ==
  \/ \E agg \in DataColumns, L2 \in DataColumns, L5 \in DataColumns :
       NewDipole(agg, L2, L5)
  \/ ConvertFAmToNAm
  \/ \E fctr \in {2} : Scale(fctr)
  \/ \E winsz \in {1, 3} : Smooth(winsz)
  \/ \E params \in Params : BaselineRenormalize(params)

SpecDipole == InitDipole /\ [][NextDipole]_vars

(* ============ simulate_dipole on several ranks ========================= *)
(* src/mne_neuron/dipole.py simulate_dipole from pc.psolve on. pc is       *)
(* NEURON's ParallelContext: barrier() returns on a rank once every rank   *)
(* has called it, allreduce(vec, 1) returns once every rank has called it  *)
(* and leaves in vec the sum of the vectors handed in.                     *)

\* the statements of lines 120-154 in program order
Program == <<"psolve", "aggregate_currents", "aggregate_dpls", "barrier",
             "allreduce dpls L5Pyr", "allreduce dpls L2Pyr",
             "allreduce current L5Pyr_soma", "allreduce current L2Pyr_soma",
             "return", "done">>

\* the vector each allreduce combines
VectorOf(stmt) ==
  CASE stmt = "allreduce dpls L5Pyr" -> "dpls L5Pyr"
    [] stmt = "allreduce dpls L2Pyr" -> "dpls L2Pyr"
    [] stmt = "allreduce current L5Pyr_soma" -> "current L5Pyr_soma"
    [] stmt = "allreduce current L2Pyr_soma" -> "current L2Pyr_soma"

Vectors == {"dpls L5Pyr", "dpls L2Pyr", "current L5Pyr_soma",
            "current L2Pyr_soma"}

Allreduces == {"allreduce dpls L5Pyr", "allreduce dpls L2Pyr",
               "allreduce current L5Pyr_soma", "allreduce current L2Pyr_soma"}

\* what the cells of rank r add to vector v, per time sample
Local(r, v) ==
  LET w == CASE v = "dpls L5Pyr" -> 1 [] v = "dpls L2Pyr" -> 10
             [] v = "current L5Pyr_soma" -> 100
             [] v = "current L2Pyr_soma" -> 1000
  IN [i \in DOMAIN times |-> w * (r + 1) + i]

Zeros == [i \in DOMAIN times |-> 0]

\* position of a statement in the program
At(r) == IndexOf(Program, ranks[r].pc)

\* rank q has called the collective statement number k
HasCalled(q, k) == At(q) > k \/ (At(q) = k /\ ranks[q].inside)

RECURSIVE SumOver(_, _)
SumOver(S, v) ==
  IF S = {} THEN Zeros
  ELSE LET q == CHOOSE x \in S : TRUE
       IN ArrayAdd(ranks[q].handed[v], SumOver(S \ {q}, v))

\* mpiexec -np n: n processes run simulate_dipole(net)
Launch(n) ==
  /\ ranks = <<>>
  /\ ranks' = [r \in 0..(n - 1) |->
                 [pc |-> "psolve", inside |-> FALSE,
                  net |-> [v \in Vectors |-> Zeros],
                  handed |-> [v \in Vectors |-> Zeros],
                  dpl |-> [units |-> "none"]]]
  /\ UNCHANGED <<uqVars, mpiVars, evalVars, dplVars>>

Step(r, stmt) ==
  /\ r \in DOMAIN ranks
  /\ ranks[r].pc = stmt

Goto(r, rec) ==
  /\ ranks' = [ranks EXCEPT ![r] = [rec EXCEPT !.pc = Program[At(r) + 1],
                                                !.inside = FALSE]]
  /\ UNCHANGED <<uqVars, mpiVars, evalVars, dplVars>>

\* pc.psolve(h.tstop)
Psolve(r) ==
  /\ Step(r, "psolve")
  /\ Goto(r, ranks[r])

\* net.aggregate_currents(): the currents of the cells of this rank
AggregateCurrents(r) ==
  /\ Step(r, "aggregate_currents")
  /\ Goto(r, [ranks[r] EXCEPT
                !.net = [v \in Vectors |->
                           IF v \in {"current L5Pyr_soma", "current L2Pyr_soma"}
                           THEN Local(r, v) ELSE ranks[r].net[v]]])

\* net.aggregate_dpls(): the dipoles of the cells of this rank
AggregateDpls(r) ==
  /\ Step(r, "aggregate_dpls")
  /\ Goto(r, [ranks[r] EXCEPT
                !.net = [v \in Vectors |->
                           IF v \in {"dpls L5Pyr", "dpls L2Pyr"}
                           THEN Local(r, v) ELSE ranks[r].net[v]]])

\* a barrier that lets every rank through at once
BarrierOpen(k) == TRUE

\* pc.barrier() returns when every rank has called it
BarrierFull(k) == \A q \in DOMAIN ranks : HasCalled(q, k)

\* the rank calls pc.barrier() or pc.allreduce(vec, 1) and hands in vec
CallCollective(r) ==
  /\ r \in DOMAIN ranks
  /\ ranks[r].pc \in Allreduces \cup {"barrier"}
  /\ ~ranks[r].inside
  /\ ranks' = [ranks EXCEPT
                 ![r].inside = TRUE,
                 ![r].handed = IF ranks[r].pc \in Allreduces
                               THEN [@ EXCEPT ![VectorOf(ranks[r].pc)] =
                                       ranks[r].net[VectorOf(ranks[r].pc)]]
                               ELSE @]
  /\ UNCHANGED <<uqVars, mpiVars, evalVars, dplVars>>

\* pc.barrier() returns
Barrier(r) ==
  /\ Step(r, "barrier") /\ ranks[r].inside
  /\ BarrierFull(At(r))
  /\ Goto(r, ranks[r])

\* pc.allreduce(vec, 1) returns with the sum over the ranks in vec
Allreduce(r) ==
  /\ r \in DOMAIN ranks
  /\ ranks[r].pc \in Allreduces /\ ranks[r].inside
  /\ \A q \in DOMAIN ranks : HasCalled(q, At(r))
  /\ LET v == VectorOf(ranks[r].pc)
     IN Goto(r, [ranks[r] EXCEPT !.net[v] = SumOver(DOMAIN ranks, v)])

\* a rank test that holds on every process
rankAlwaysZero(r) == 0

\* rank of .parallel
rank(r) == r

\* lines 135-154: dpl = None; rank 0 builds the Dipole; return dpl
Return(r) ==
  /\ Step(r, "return")
  /\ Goto(r, [ranks[r] EXCEPT
                !.dpl = IF rank(r) = 0
                        THEN Dipole(times,
                                    ArrayAdd(ranks[r].net["dpls L2Pyr"],
                                             ranks[r].net["dpls L5Pyr"]),
                                    ranks[r].net["dpls L2Pyr"],
                                    ranks[r].net["dpls L5Pyr"])
                        ELSE None])

InitRanks == InitMPI

NextRanks ==
  \/ \E n \in 1..MaxRanks : Launch(n)
  \/ \E r \in 0..(MaxRanks - 1) : Psolve(r)
  \/ \E r \in 0..(MaxRanks - 1) : AggregateCurrents(r)
  \/ \E r \in 0..(MaxRanks - 1) : AggregateDpls(r)
  \/ \E r \in 0..(MaxRanks - 1) : CallCollective(r)
  \/ \E r \in 0..(MaxRanks - 1) : Barrier(r)
  \/ \E r \in 0..(MaxRanks - 1) : Allreduce(r)
  \/ \E r \in 0..(MaxRanks - 1) : Return(r)

SpecRanks == InitRanks /\ [][NextRanks]_vars

(* ======================= properties ==================================== *)
\* the stages in which the locals of a run (nodes, solves, ...) are alive
InRun == pc \in {"Evaluate", "Align", "Fit", "Statistics"}

\* the alignment has been done and its locals are still alive
Aligned == pc \in {"Fit", "Statistics"}

\* C1: in every run (createPCExpansion and pseudoMC, all parameters or a single
\* one) axis i of the joint distribution is the marginal of the parameter
\* named at position i of the order used to unpack a node, and every
\* evaluated node gave its component i to exactly that name.
C1_NodeOrderMatchesJoint ==
  InRun =>
    /\ Len(tmp_parameter_name) = Len(distribution)
    /\ \A i \in DOMAIN distribution :
         parameters[tmp_parameter_name[i]].parameter_space = distribution[i]
    /\ \A j \in DOMAIN calls :
         /\ DOMAIN calls[j] = Range(tmp_parameter_name)
         /\ \A i \in DOMAIN distribution :
              calls[j][tmp_parameter_name[i]] = nodes[j][i]

\* C1 witness: a batch over two different marginals whose first node has two
\* different components has been evaluated up to its second node.
C1_Witness ==
  /\ pc = "Evaluate" /\ call = "all" /\ Len(calls) >= 2
  /\ distribution[1] # distribution[2]
  /\ nodes[1][1] # nodes[1][2]

\* the uncertain parameters in the order of the parameterlist
RegisteredUncertain ==
  SelectSeq(registered, LAMBDA n : parameters[n].parameter_space # None)

\* C2: getUncertain(attribute) lists the attribute of exactly the parameters
\* with a distribution, in parameter registration order.
C2_RegistrationOrder ==
  getUncertain("name") = RegisteredUncertain

\* C3: once the evaluation of one node has failed the run is Aborted, and no
\* surrogate and no statistic (mean, variance, percentiles, sensitivity) is
\* produced by that run, however many nodes were evaluated before.
C3_FailFast ==
  failed.index # 0 =>
    /\ pc = "Aborted"
    /\ U_hat.by # runs
    /\ \A f \in DOMAIN stats : stats[f] # runs

\* C3 witness: the simulator failed for a node after other nodes of the
\* batch had been evaluated.
C3_Witness ==
  /\ pc = "Aborted" /\ failed.index > 2 /\ failed.len = -1

\* C4: the report of an aborted batch holds the index of the failing node
\* and its parameter vector.
C4_ReportNamesNode ==
  (pc = "Aborted" /\ failed.index # 0) =>
    /\ \E k \in DOMAIN report :
         report[k].kind = "index" /\ report[k].v = failed.index
    /\ \E k \in DOMAIN report :
         report[k].kind = "vector" /\ report[k].v = failed.vector

\* C5: with an explicit multivariate distribution whose dimensionality is not
\* the number of uncertain parameters no model evaluation is ever dispatched.
C5_MismatchStopsBeforeEvaluation ==
  (explicit # None /\ explicit.dim # Len(getUncertain("name"))) => calls = <<>>

\* C6: setDistribution with a generator function calls it on the nominal
\* value and raises exactly when the result is no distribution; an argument
\* that is neither None, a distribution nor a callable raises; None makes the
\* parameter certain; a distribution is stored as it is.
C6_SetDistributionValidates ==
  lastCall.op = "setDistribution" =>
    LET p == parameters[lastCall.name]
        a == lastCall.arg
        made == Call(a.f, NominalValue(lastCall.name))
    IN /\ a.kind = "Func" =>
            /\ lastCall.raised <=> ~IsDist(made)
            /\ ~lastCall.raised => p.parameter_space = made
       /\ a.kind = "Obj" => lastCall.raised
       /\ a.kind = "None" =>
            /\ ~lastCall.raised
            /\ p.parameter_space = None
            /\ \A i \in DOMAIN getUncertain("name") :
                 getUncertain("name")[i] # lastCall.name
       /\ a.kind = "Dist" => ~lastCall.raised /\ p.parameter_space = a

\* C6 witness: a generator function that returns no distribution for the
\* nominal value of this parameter, and does for another, was passed.
C6_Witness ==
  /\ lastCall.op = "setDistribution" /\ lastCall.arg.kind = "Func"
  /\ lastCall.arg.f = "wide_if_big" /\ lastCall.raised

\* C7: the reference grid is the time vector of a raw result with the
\* greatest number of samples, of the one with the lowest node index when
\* several have that many.
C7_ReferenceGrid ==
  Aligned =>
    /\ index_max_len \in DOMAIN solves
    /\ t = solves[index_max_len].t
    /\ \A j \in DOMAIN solves : Len(solves[j].t) <= Len(t)
    /\ \A j \in DOMAIN solves : j < index_max_len => Len(solves[j].t) < Len(t)

\* C7 witness: two raw results share the greatest length, shorter ones come
\* before the first of them.
C7_Witness ==
  /\ pc = "Fit" /\ index_max_len > 1
  /\ \E j \in DOMAIN solves :
       j > index_max_len /\ Len(solves[j].t) = Len(solves[index_max_len].t)

\* C8: after alignment there is one aligned output per node, in node order,
\* each as long as the reference grid and equal to the node's raw output on
\* the node's own time points.
C8_AlignedShape ==
  Aligned =>
    /\ Len(interpolated_solves) = Len(nodes)
    /\ \A i \in DOMAIN interpolated_solves :
         /\ Len(interpolated_solves[i]) = Len(t)
         /\ solves[i] = Solve(calls[i], Len(solves[i].t))
         /\ calls[i] = Unpack(tmp_parameter_name, nodes[i])
         /\ \A k \in DOMAIN solves[i].t :
              interpolated_solves[i][solves[i].t[k]] = solves[i].U[k]

\* C8 witness: raw results of two different lengths have been aligned.
C8_Witness ==
  /\ pc = "Fit"
  /\ \E i, j \in DOMAIN solves :
       /\ Len(solves[i].t) = SplineK + 1 /\ Len(solves[j].t) = MaxLen
       /\ Len(interpolated_solves[i]) = MaxLen
       /\ Len(interpolated_solves[j]) = MaxLen

\* C9: a raw result without samples aborts the run: while the batch is
\* evaluated, aligned and fitted no raw result of it is empty and none is
\* missing but that of a simulation still going on, and the reference grid is
\* never empty.
C9_EmptyOutputIsFatal ==
  /\ InRun =>
       /\ Len(solves) = Len(calls) - (IF outstanding = 0 THEN 0 ELSE 1)
       /\ \A i \in DOMAIN solves : Len(solves[i].t) > 0
  /\ Aligned => Len(t) > 0
  /\ failed.len = 0 => pc = "Aborted"

\* C9 witness: the simulator returned no samples for a node after other nodes
\* of the batch had been evaluated, and the run is Aborted.
C9_Witness ==
  /\ pc = "Aborted" /\ failed.len = 0 /\ failed.index > 1

C11_StatisticsEvaluateNothing ==
  /\ [](Aligned => Len(calls) = Len(nodes))
  /\ [][Aligned => calls' = calls]_vars

\* C11 witness: mean, variance, percentiles and sensitivity of a surrogate
\* fitted on six nodes have been computed.
C11_Witness ==
  /\ pc = "Done" /\ call = "all" /\ U_hat.by = runs /\ U_hat.nnodes = 6
  /\ stats.sensitivity = runs /\ stats.p_95 = runs

\* the stages of a run, and the states in which no run is going on
Stages ==
  {"ComposeDistribution", "GenerateNodes", "Evaluate", "Align", "Fit",
   "Statistics"}

Terminal == {"Idle", "Done", "Aborted"}

\* the stage that follows stage s in the order of the specification
StageAfter(s) ==
  CASE s = "ComposeDistribution" -> "GenerateNodes"
    [] s = "GenerateNodes" -> "Evaluate"
    [] s = "Evaluate" -> "Align"
    [] s = "Align" -> "Fit"
    [] s = "Fit" -> "Statistics"
    [] s = "Statistics" -> "Done"

\* a step that changes the stage, with next standing for the order of the
\* stages: a stage hands over to the next stage of the same run or the run
\* is Aborted; out of Idle, Done and Aborted leads only the first stage of a
\* new run, or a call that ends at once and executes no stage (it changes no
\* result and evaluates nothing)
StageStep(next) ==
  \/ pc \in Stages /\ pc' = "Aborted" /\ runs' = runs
  \/ pc \in Stages /\ pc' = next /\ runs' = runs
  \/ pc \in Terminal /\ pc' = "ComposeDistribution" /\ runs' = runs + 1
  \/ pc \in Terminal /\ pc' = "Done" /\ runs' = runs
       /\ UNCHANGED resultVars /\ calls' = <<>>

C13_AlignmentBarrier ==
  /\ (pc = "Align" \/ Aligned) =>
       /\ Len(solves) = Len(nodes)
       /\ outstanding = 0
       /\ failed.index = 0
  /\ (pc = "Evaluate" \/ outstanding # 0) =>
       /\ index_max_len = 0
       /\ interpolated_solves = <<>>

\* C13 witness: the alignment of a batch of six nodes is about to start.
C13_Witness ==
  /\ pc = "Align" /\ Len(nodes) = 6 /\ Len(solves) = 6

C15_NoRetry ==
  /\ InRun =>
       /\ Len(calls) <= Len(nodes)
       /\ \A j \in DOMAIN calls :
            calls[j] = Unpack(tmp_parameter_name, nodes[j])
  /\ failed.index # 0 =>
       /\ pc = "Aborted"
       /\ Len(calls) = failed.index
       /\ calls[failed.index] = Unpack(tmp_parameter_name, failed.vector)

\* C15 witness: the simulator failed for the second node of a batch.
C15_Witness ==
  /\ pc = "Aborted" /\ failed.index = 2 /\ failed.len = -1 /\ Len(calls) = 2

\* C16: a run that has started and has reached neither Done nor Aborted can
\* always go on, also when a simulation does not return: the time limit of
\* the node turns it into an abort.
C16_EveryRunGoesOn ==
  pc \in Stages => ENABLED Next

\* the runs the stored result fields come from (0: a field never assigned)
ResultOrigins ==
  {origin.distribution, origin.P, origin.t, U_hat.by}
    \cup {stats[f] : f \in DOMAIN stats}

\* C17: between runs the stored result fields (joint distribution, basis,
\* surrogate, time grid, mean, variance, percentiles, sensitivity) that hold
\* a result all hold the result of one and the same run, and none of them
\* holds a result of a run that was Aborted.
C17_ResultsOfOneRun ==
  Between =>
    /\ Cardinality(ResultOrigins \ {0}) <= 1
    /\ pc = "Aborted" => runs \notin ResultOrigins

\* the parameters that have a distribution now
Uncertain == {n \in DOMAIN parameters : parameters[n].parameter_space # None}

C19_ChildDataChecked ==
  parent.op # "none" =>
    LET data == parent.data
        data_len == parent.data_len
        r == parent.result
    IN /\ r.op = "return" =>
            Len(data) # 0 /\ Len(data) = data_len /\ PaddingFits(data)
       /\ Len(data) = 0 =>
            r.op = "raise" /\ r.msg = "MPI simulation didn't return any data"
       /\ Len(data) # 0 /\ Len(data) # data_len =>
            /\ r.op = "raise"
            /\ r.msg = "Failed to receive all data from the child MPI process"
            /\ r.expecting = data_len /\ r.got = Len(data)
       /\ ~PaddingFits(data) => r.op = "raise"

\* C19 witness: the call of test_data_len_mismatch (one byte that is not
\* base64, two expected) has raised the error that names 2 and 1.
C19_Witness ==
  /\ parent.op # "none" /\ parent.of = "given"
  /\ parent.data = <<"0">> /\ parent.data_len = 2
  /\ parent.result.op = "raise"
  /\ parent.result.expecting = 2 /\ parent.result.got = 1

C21_OwnFilesOnly ==
  \A e \in DOMAIN evals :
    /\ evals[e].U \in {0, e}
    /\ evals[e].t \in {0, e}
    /\ evals[e].pc \notin {"IOError", "OSError"}

\* C22: evaluateNodeFunction leaves the list passed as data[0] as it was, and
\* the command of every evaluation is the base command, then --CPU with the
\* process suffix, --save_path and --parameters, then one name/value pair for
\* each parameter of its own node and nothing else.
C22_CommandListUnchanged ==
  /\ data0 = BaseCmd
  /\ \A e \in DOMAIN evals :
       evals[e].kind = "evaluateNodeFunction" =>
         LET c == evals[e].cmd
             k == Len(BaseCmd)
             names == tmp_parameter_names
         IN /\ Len(c) = k + 5 + 2 * Len(names)
            /\ SubSeq(c, 1, k) = BaseCmd
            /\ SubSeq(c, k + 1, k + 5) =
                 <<"--CPU", current_process(evals[e].proc),
                   "--save_path", "filedir", "--parameters">>
            /\ \A j \in DOMAIN names :
                 \E i \in 1..Len(names) :
                   /\ c[k + 4 + 2 * i] = names[j]
                   /\ c[k + 5 + 2 * i] = ToString(NodeOf(e)[j])

\* C22 witness: the main process has evaluated node 1 to the end and has
\* built the command of node 2 from the same list.
C22_Witness ==
  /\ Len(evals) >= 2
  /\ evals[1].kind = "evaluateNodeFunction" /\ evals[1].pc = "done"
  /\ evals[2].kind = "evaluateNodeFunction"
  /\ evals[1].proc = <<"MainProcess">> /\ evals[2].proc = <<"MainProcess">>
  /\ evals[2].cmd[Len(evals[2].cmd)] = ToString(NodeOf(2)[1])

\* C23: a setDistribution call keeps the name and the nominal value of its
\* parameter, and a call that raises also keeps the parameter's stored
\* distribution and with it the names getUncertain returns.
C23_FailedSetKeepsDistribution ==
  [][(lastCall'.op = "setDistribution" /\ sets' = sets + 1) =>
       LET n == lastCall'.name
       IN /\ parameters'[n].name = parameters[n].name
          /\ parameters'[n].value = parameters[n].value
          /\ lastCall'.raised =>
               /\ parameters'[n].parameter_space = parameters[n].parameter_space
               /\ getUncertain("name")' = getUncertain("name")]_vars

\* C24: once the units of a Dipole are 'nAm' they stay 'nAm', and a call of
\* baseline_renormalize on a Dipole whose units are not 'fAm' leaves agg, L2
\* and L5 as they were; a call on a Dipole in 'fAm' leaves agg equal to
\* L2 + L5 at every time index.
C24_RenormalizeOnlyInFAm ==
  [][/\ dipole.units = "nAm" => dipole'.units = "nAm"
     /\ (Len(method') = Len(method) + 1
         /\ method'[Len(method')] = "baseline_renormalize") =>
          IF dipole.units # "fAm"
          THEN dipole'.dpl = dipole.dpl
          ELSE \A i \in DOMAIN dipole'.t :
                 dipole'.dpl.agg[i] = dipole'.dpl.L2[i] + dipole'.dpl.L5[i]]_vars

\* C24 witness: baseline_renormalize has been called on a new Dipole in
\* 'fAm' (L5 at 37 ms has lost its negative offset), then convert_fAm_to_nAm,
\* then baseline_renormalize again.
C24_Witness ==
  /\ Len(method) = 4
  /\ method[2] = "baseline_renormalize"
  /\ method[3] = "convert_fAm_to_nAm"
  /\ method[4] = "baseline_renormalize"
  /\ dipole.units = "nAm"
  /\ dipole.dpl.L5[1] >= 49

\* the sum over all ranks of what their cells add to vector v
Combined(v) ==
  [i \in DOMAIN times |->
     SeqSum([q \in 1..Cardinality(DOMAIN ranks) |-> Local(q - 1, v)[i]])]

====
